---------------------------- MODULE Spec2Model ----------------------------
(***************************************************************************)
(* Model of src/app.py, the Streamlit real-estate expose generator.        *)
(*                                                                         *)
(* Streamlit re-executes the whole script on every interaction.  One run   *)
(* with generate_button = True is a "generate click".  The blocking call   *)
(* client.chat.completions.create splits the click in two steps:           *)
(* ClickGenerate (lines 267-301, up to the request being issued) and       *)
(* CompletionReturns (lines 292-324, from the return of the call on).      *)
(*                                                                         *)
(* Python values: None is the string marker None; strings are TLA+         *)
(* strings; str(), list repr and strftime are computed digit by digit.     *)
(* The st.error messages are given without their leading emoji.  The       *)
(* number_input of line 194 exists only while garage = "Ja": its value is  *)
(* kept in form while it is hidden, where the script cannot read it, and   *)
(* starts again at 1 when the widget is shown again.                       *)
(***************************************************************************)
EXTENDS Integers, Sequences, FiniteSets, TLC

VARIABLES
    templateFile,   \* expose_template.j2 on disk: "absent", "syntax_error" or a template name
    template,       \* result of load_template(), cached by st.cache_resource for the session
    secrets,        \* st.secrets: "absent" (no OPENAI_API_KEY), "empty" ("") or "present"
    form,           \* widget values of column 1 (session widget state)
    now,            \* wall clock, seconds since local midnight of Today
    pc,             \* position of the current click: idle, awaiting, succeeded, failed
    locals,         \* script variables of the run blocked in the completion call
    calls,          \* requests passed to client.chat.completions.create in the current run
    col1,           \* messages load_template leaves in column 1
    col2,           \* elements the generate handler has put in column 2 in the current run
    lastRender      \* the latest template.render of the session: <<>> or <<[form, template, out]>>

vars == <<templateFile, template, secrets, form, now, pc, locals, calls, col1, col2, lastRender>>

(***************************************************************************)
(* Bounds of the model.                                                    *)
(***************************************************************************)
MaxGarages == 2        \* largest count entered in "Anzahl Garagen"
MaxTicks == 2          \* seconds the clock advances during a session
SessionStart == 32758  \* 09:05:58, so that the clock crosses a minute

(***************************************************************************)
(* Configuration, lines 61-64 and the literals of the request.             *)
(***************************************************************************)
None == "<None>"
MODEL_NAME == "gpt-3.5-turbo"
TEMPERATURE == [num |-> 9, den |-> 10]
MAX_TOKENS == 800
TOP_P == [num |-> 95, den |-> 100]
SYSTEM_PREAMBLE == "You are a professional real estate exposé writer. Generate accurate, well-structured property descriptions in German."

(***************************************************************************)
(* str() of a non-negative int, and zero padding as in strftime.           *)
(***************************************************************************)
Digit(d) ==
    CASE d = 0 -> "0" [] d = 1 -> "1" [] d = 2 -> "2" [] d = 3 -> "3" [] d = 4 -> "4"
      [] d = 5 -> "5" [] d = 6 -> "6" [] d = 7 -> "7" [] d = 8 -> "8" [] d = 9 -> "9"

RECURSIVE IntToStr(_)
IntToStr(n) ==
    IF n < 10 THEN Digit(n) ELSE IntToStr(n \div 10) \o Digit(n % 10)

Pad2(n) ==
    IF n < 10 THEN "0" \o Digit(n) ELSE IntToStr(n)

Today == [year |-> 2025, month |-> 3, day |-> 7]

\* time.strftime('%Y%m%d_%H%M%S') at clock value t
strftime(t) ==
    IntToStr(Today.year) \o Pad2(Today.month) \o Pad2(Today.day) \o "_"
        \o Pad2(t \div 3600) \o Pad2((t % 3600) \div 60) \o Pad2(t % 60)

\* repr of a Python list of str, as str(list) prints it
RECURSIVE ListItems(_)
ListItems(l) ==
    IF Len(l) = 0 THEN ""
    ELSE IF Len(l) = 1 THEN "'" \o l[1] \o "'"
    ELSE "'" \o l[1] \o "', " \o ListItems(Tail(l))

ListToStr(l) == "[" \o ListItems(l) \o "]"


(***************************************************************************)
(* The form of column 1, lines 119-223.  Every widget starts at the value  *)
(* or index the script gives it; the widgets the model lets the user       *)
(* change are those of EditableValues.                                     *)
(***************************************************************************)
DefaultForm ==
    [ estate_type        |-> "Haus",
      estate_subtype     |-> "Einfamilienhaus",
      town               |-> "Berlin",
      zip_code           |-> "10115",
      purchase_price     |-> 500000,
      living_space       |-> 120,
      realty_area        |-> 300,
      rooms              |-> 4,
      bed_rooms          |-> 3,
      bath_rooms         |-> 2,
      construction_year  |-> 2005,
      condition          |-> "Gepflegt",
      energy_rating      |-> "C",
      energy_consumption |-> 120,
      heating            |-> "Gasheizung",
      firing             |-> "Gas",
      floorings          |-> <<"Parkett", "Fliesen">>,
      furnishing         |-> "Moderne Einbauküche, Badezimmer mit Fenster",
      garden             |-> "Ja",
      garage             |-> "Ja",
      garages_input      |-> 1,
      parking_spaces     |-> 1,
      features           |-> <<"Denkmalgeschützt", "Aufzug", "Kamin", "Gäste-WC">>,
      target_group       |-> "Familien",
      text_style         |-> "Standard" ]

EditableValues(field) ==
    CASE field = "town"          -> {"Berlin", "Bonn"}
      [] field = "target_group"  -> {"Familien", "Paare"}
      [] field = "garage"        -> {"Ja", "Nein"}
      [] field = "garages_input" -> 1..MaxGarages

EditableFields == {"town", "target_group", "garage", "garages_input"}

\* lines 192-196: the script variable garages
garages(f) ==
    IF f.garage = "Ja" THEN f.garages_input ELSE 0

\* line 207: features.split("\n") is the sequence f.features; blank lines are dropped
feature_list(f) ==
    SelectSeq(f.features, LAMBDA line : line # "")

\* line 256, with the inverted condition
garages_bound_inverted(f) ==
    IF f.garage = "Nein" THEN garages(f) ELSE 0

\* line 256: the value bound to "garages"
garages_bound(f) ==
    IF f.garage = "Ja" THEN garages(f) ELSE 0

\* lines 232-264
prepare_property_data(f) ==
    [ expose_object |->
        [ object_attributes |->
            [ estateType             |-> f.estate_type,
              estateSubType          |-> f.estate_subtype,
              town                   |-> f.town,
              zip                    |-> f.zip_code,
              purchasePrice          |-> f.purchase_price,
              livingSpace            |-> f.living_space,
              realtyArea             |-> f.realty_area,
              rooms                  |-> f.rooms,
              bedRooms               |-> f.bed_rooms,
              bathRooms              |-> f.bath_rooms,
              constructionYearNumber |-> f.construction_year,
              condition              |-> f.condition,
              energyEfficiencyRating |-> f.energy_rating,
              energyConsumption      |-> f.energy_consumption,
              heatings               |-> f.heating,
              firings                |-> f.firing,
              floorings              |-> f.floorings,
              furnishing             |-> f.furnishing,
              garden                 |-> f.garden,
              garages                |-> garages_bound(f),
              parkingSpaces          |-> f.parking_spaces,
              estateDefaultFeatures  |-> feature_list(f) ] ],
      target_group |-> f.target_group,
      text_style   |-> f.text_style ]

(***************************************************************************)
(* Templates.  expose_template.j2 is a file outside the script; the model  *)
(* draws its content from TemplateNames.  A template is a sequence of      *)
(* segments: literal text (path = <<>>) or a placeholder {{ a.b.c }} with   *)
(* path <<"a", "b", "c">>.                                                   *)
(***************************************************************************)
Lit(t) == [text |-> t, path |-> <<>>]
Var(p) == [text |-> "", path |-> p]
Attr(k) == Var(<<"expose_object", "object_attributes", k>>)

TemplateNames == {"full", "missing_attribute", "missing_variable", "attribute_of_undefined"}

CommonSegments ==
    << Lit("Schreibe ein Exposé für "), Var(<<"target_group">>),
       Lit(" im Stil "), Var(<<"text_style">>),
       Lit(". Ort: "), Attr("zip"), Lit(" "), Attr("town"),
       Lit(". Garagen: "), Attr("garages"),
       Lit(". Böden: "), Attr("floorings"),
       Lit(". Merkmale: "), Attr("estateDefaultFeatures") >>

TemplateSource(name) ==
    CASE name = "full" ->
            CommonSegments \o << Lit(". Ausstattung: "), Attr("furnishing") >>
      [] name = "missing_attribute" ->
            CommonSegments \o << Lit(". Balkon: "), Attr("balcony"), Lit(".") >>
      [] name = "missing_variable" ->
            CommonSegments \o << Lit(". Makler: "), Var(<<"agent_name">>), Lit(".") >>
      [] name = "attribute_of_undefined" ->
            CommonSegments \o << Lit(". Makler: "), Var(<<"agent", "name">>), Lit(".") >>

\* lines 67-82: what load_template returns for the file on disk, and the
\* message it leaves (st.cache_resource replays it on every later run)
load_template(file) ==
    CASE file = "absent" ->
            [ template |-> None,
              messages |-> << "Template file 'expose_template.j2' not found in current directory!" >> ]
      [] file = "syntax_error" ->
            [ template |-> None,
              messages |-> << "Error loading template: unexpected end of template" >> ]
      [] OTHER ->
            [ template |-> file, messages |-> << >> ]

(***************************************************************************)
(* template.render of property_data, line 278, with the Environment of      *)
(* line 74 (jinja2's default Undefined).  A name the binding lacks is       *)
(* Undefined and prints as the empty string; reading an attribute of an     *)
(* Undefined raises UndefinedError.                                         *)
(***************************************************************************)
IntKeys ==
    { "purchasePrice", "livingSpace", "realtyArea", "rooms", "bedRooms", "bathRooms",
      "constructionYearNumber", "energyConsumption", "garages", "parkingSpaces" }

ListKeys == { "floorings", "estateDefaultFeatures" }

TopLevelKeys == { "expose_object", "target_group", "text_style" }

\* str() of the value bound to key k of object_attributes
AttrToStr(k, v) ==
    IF k \in IntKeys THEN IntToStr(v)
    ELSE IF k \in ListKeys THEN ListToStr(v)
    ELSE v

Resolved(t) == [ok |-> TRUE, text |-> t]
Raised(msg) == [ok |-> FALSE, text |-> msg]

\* the text a placeholder prints, or the error it raises
Lookup(data, path) ==
    LET attrs == data.expose_object.object_attributes IN
    IF path[1] \notin TopLevelKeys
      THEN IF Len(path) = 1 THEN Resolved("")
           ELSE Raised("'" \o path[1] \o "' is undefined")
    ELSE IF path = <<"target_group">> THEN Resolved(data.target_group)
    ELSE IF path = <<"text_style">> THEN Resolved(data.text_style)
    ELSE IF Len(path) = 3 /\ path[1] = "expose_object" /\ path[2] = "object_attributes"
      THEN IF path[3] \in DOMAIN attrs
             THEN Resolved(AttrToStr(path[3], attrs[path[3]]))
             ELSE Resolved("")
    ELSE Raised("unsupported placeholder")

RECURSIVE RenderSegments(_, _)
RenderSegments(segs, data) ==
    IF Len(segs) = 0 THEN Resolved("")
    ELSE LET head == IF Head(segs).path = <<>> THEN Resolved(Head(segs).text)
                     ELSE Lookup(data, Head(segs).path)
             rest == RenderSegments(Tail(segs), data)
         IN  IF ~head.ok THEN head
             ELSE IF ~rest.ok THEN rest
             ELSE Resolved(head.text \o rest.text)

\* line 278, had the rendering kept something from the render before it
render_stateful(tmpl, data) ==
    LET r == RenderSegments(TemplateSource(tmpl), data)
    IN  IF lastRender = << >> \/ ~r.ok THEN r
        ELSE Resolved(r.text \o " (erneut)")

\* line 278
render(tmpl, data) == RenderSegments(TemplateSource(tmpl), data)

(***************************************************************************)
(* Elements of column 2 and the completion request.                        *)
(***************************************************************************)
Error(msg)        == [kind |-> "error",          body |-> msg, file_name |-> ""]
Expander(p)       == [kind |-> "prompt_expander", body |-> p,   file_name |-> ""]
Html(h)           == [kind |-> "html",           body |-> h,   file_name |-> ""]
Markdown(t)       == [kind |-> "markdown",       body |-> t,   file_name |-> ""]
Caption           == [kind |-> "caption",        body |-> "Generation time", file_name |-> ""]
Download(d, name) == [kind |-> "download",       body |-> d,   file_name |-> name]

TEMPLATE_NOT_FOUND == "Template file not found. Please ensure 'expose_template.j2' exists."
KEY_NOT_FOUND == "OpenAI API key not found in secrets. Please add it to your Streamlit secrets."

\* line 324
ExceptionMessage(e) == "Error: " \o e

NoLocals ==
    [ town |-> "", target_group |-> "", rendered_prompt |-> "",
      start_time |-> 0, end_time |-> 0, model_response |-> None ]

\* line 268
template_missing(tmpl) == tmpl = None

\* line 270, had it tested "is None" only
credential_missing_none_only(key) == key = None

\* line 270: not st.secrets.get("OPENAI_API_KEY")
credential_missing(key) == key = None \/ key = ""

\* lines 292-301, with the two messages in the other order
create_request_user_first(prompt, key) ==
    [ api_key     |-> key,
      model       |-> MODEL_NAME,
      messages    |-> << [role |-> "user", content |-> prompt],
                         [role |-> "system", content |-> SYSTEM_PREAMBLE] >>,
      temperature |-> TEMPERATURE,
      max_tokens  |-> MAX_TOKENS,
      top_p       |-> TOP_P ]

\* lines 287-301: the arguments of client.chat.completions.create
create_request(prompt, key) ==
    [ api_key     |-> key,
      model       |-> MODEL_NAME,
      messages    |-> << [role |-> "system", content |-> SYSTEM_PREAMBLE],
                         [role |-> "user", content |-> prompt] >>,
      temperature |-> TEMPERATURE,
      max_tokens  |-> MAX_TOKENS,
      top_p       |-> TOP_P ]

\* line 319, with town and target_group exchanged
download_file_name_swapped(town, target_group, t) ==
    "expose_" \o target_group \o "_" \o town \o "_" \o strftime(t) \o ".txt"

\* line 319
download_file_name(town, target_group, t) ==
    "expose_" \o town \o "_" \o target_group \o "_" \o strftime(t) \o ".txt"

\* the entry of lastRender for a render of data with tmpl that gave result r
RenderEntry(f, data, tmpl, r) ==
    LET repeated == /\ lastRender # <<>>
                    /\ lastRender[1].form = f
                    /\ lastRender[1].template = tmpl
    IN  << [ form |-> f, data |-> data, template |-> tmpl, result |-> r,
             repeated |-> repeated,
             previous |-> IF repeated THEN lastRender[1].result ELSE r ] >>

(***************************************************************************)
(* The generate handler, lines 267-324.                                    *)
(***************************************************************************)
\* a click that ends before the try block
Refused(msg) ==
    [ pc |-> "failed", col2 |-> << Error(msg) >>, calls |-> << >>,
      locals |-> NoLocals, rendered |-> << >> ]

\* lines 273-301: the try block up to the blocking call
try_block(tmpl, key, f, t) ==
    LET data == prepare_property_data(f)
        r    == render(tmpl, data)
    IN  IF ~r.ok
          THEN [ pc |-> "failed",
                 col2 |-> << Error(ExceptionMessage(r.text)) >>,
                 calls |-> << >>,
                 locals |-> NoLocals,
                 rendered |-> << [data |-> data, result |-> r] >> ]
          ELSE [ pc |-> "awaiting",
                 col2 |-> << Expander(r.text) >>,
                 calls |-> << create_request(r.text, key) >>,
                 locals |-> [ NoLocals EXCEPT !.town = f.town,
                                              !.target_group = f.target_group,
                                              !.rendered_prompt = r.text,
                                              !.start_time = t ],
                 rendered |-> << [data |-> data, result |-> r] >> ]

\* lines 267-301, with the credential tested before the template
generate_button_clicked_key_first(tmpl, key, f, t) ==
    IF credential_missing(key) THEN Refused(KEY_NOT_FOUND)
    ELSE IF template_missing(tmpl) THEN Refused(TEMPLATE_NOT_FOUND)
    ELSE try_block(tmpl, key, f, t)

\* lines 267-301: the click, up to the request being issued
generate_button_clicked(tmpl, key, f, t) ==
    IF template_missing(tmpl) THEN Refused(TEMPLATE_NOT_FOUND)
    ELSE IF credential_missing(key) THEN Refused(KEY_NOT_FOUND)
    ELSE try_block(tmpl, key, f, t)

\* what client.chat.completions.create can do: raise, return a response
\* without choices, or return a message whose content is a text or None
Texts == { "Exposé A", "Exposé B" }

Outcomes ==
    { [kind |-> "raise", value |-> "Connection error."],
      [kind |-> "no_choices", value |-> "list index out of range"] }
    \cup { [kind |-> "content", value |-> v] : v \in Texts \cup {None} }

\* str(x) for an optional text
Str(x) == IF x = None THEN "None" ELSE x

\* lines 323-324, had the handler tried the call once more
except_clause_retry(loc, shown, sent, msg) ==
    IF Len(sent) < 2
      THEN [ pc |-> "awaiting", col2 |-> shown, calls |-> Append(sent, sent[1]),
             locals |-> loc ]
      ELSE [ pc |-> "failed", col2 |-> Append(shown, Error(ExceptionMessage(msg))),
             calls |-> sent, locals |-> loc ]

\* lines 323-324, had the handler passed over the exception
except_clause_silent(loc, shown, sent, msg) ==
    [ pc |-> "failed", col2 |-> shown, calls |-> sent, locals |-> loc ]

\* lines 323-324
except_clause(loc, shown, sent, msg) ==
    [ pc |-> "failed", col2 |-> Append(shown, Error(ExceptionMessage(msg))),
      calls |-> sent, locals |-> loc ]

\* lines 302-324: the try block from the return of the call on
completion_returned(loc, shown, sent, outcome, t) ==
    IF outcome.kind \in {"raise", "no_choices"}
      THEN except_clause(loc, shown, sent, outcome.value)
      ELSE LET model_response == outcome.value
               done == [loc EXCEPT !.end_time = t, !.model_response = model_response]
               displayed == shown \o << Html("<div class=\"response-box\">"),
                                        Markdown(Str(model_response)),
                                        Html("</div>"),
                                        Caption >>
           IN  IF model_response = None
                 THEN except_clause(done, displayed, sent,
                                    "Invalid binary data format: <class 'NoneType'>")
                 ELSE [ pc |-> "succeeded",
                        col2 |-> Append(displayed,
                                    Download(model_response,
                                        download_file_name(loc.town, loc.target_group, t))),
                        calls |-> sent,
                        locals |-> done ]

(***************************************************************************)
(* The state machine.                                                      *)
(***************************************************************************)
TemplateFiles == {"absent", "syntax_error"} \cup TemplateNames
Secrets == {None, "", "sk-test"}

Init ==
    /\ templateFile \in TemplateFiles
    /\ template = load_template(templateFile).template
    /\ col1 = load_template(templateFile).messages
    /\ secrets \in Secrets
    /\ form = DefaultForm
    /\ now = SessionStart
    /\ pc = "idle"
    /\ locals = NoLocals
    /\ calls = << >>
    /\ col2 = << >>
    /\ lastRender = << >>

\* the user changes a widget: a run of the script with generate_button = False
EditForm(field, v) ==
    /\ pc # "awaiting"
    /\ v \in EditableValues(field)
    /\ form[field] # v
    /\ field = "garages_input" => form.garage = "Ja"
    /\ form' = IF field = "garage" /\ v = "Ja"
                 THEN [form EXCEPT !.garage = "Ja", !.garages_input = 1]
                 ELSE [form EXCEPT ![field] = v]
    /\ pc' = "idle"
    /\ locals' = NoLocals
    /\ calls' = << >>
    /\ col2' = << >>
    /\ UNCHANGED <<templateFile, template, secrets, now, col1, lastRender>>

\* the user clicks "Generate Expose": a run with generate_button = True
ClickGenerate ==
    /\ pc # "awaiting"
    /\ LET g == generate_button_clicked(template, secrets, form, now)
       IN  /\ pc' = g.pc
           /\ col2' = g.col2
           /\ calls' = g.calls
           /\ locals' = g.locals
           /\ lastRender' = IF g.rendered = << >> THEN lastRender
                            ELSE RenderEntry(form, g.rendered[1].data, template,
                                             g.rendered[1].result)
    /\ UNCHANGED <<templateFile, template, secrets, form, now, col1>>

\* the blocking call returns or raises
CompletionReturns ==
    /\ pc = "awaiting"
    /\ \E outcome \in Outcomes :
         LET g == completion_returned(locals, col2, calls, outcome, now)
         IN  /\ pc' = g.pc
             /\ col2' = g.col2
             /\ calls' = g.calls
             /\ locals' = g.locals
    /\ UNCHANGED <<templateFile, template, secrets, form, now, col1, lastRender>>

\* a second passes
Tick ==
    /\ now < SessionStart + MaxTicks
    /\ now' = now + 1
    /\ UNCHANGED <<templateFile, template, secrets, form, pc, locals, calls, col1, col2,
                   lastRender>>

Next ==
    \/ \E field \in EditableFields : \E v \in EditableValues(field) : EditForm(field, v)
    \/ ClickGenerate
    \/ CompletionReturns
    \/ Tick

Spec == Init /\ [][Next]_vars

\* the call is a single blocking request that returns or raises
FairSpec == Spec /\ WF_vars(CompletionReturns)

(***************************************************************************)
(* Properties.  A state with pc # "idle" is one in which the generate      *)
(* handler has acted in the current run; the form is the one it read,      *)
(* since every edit starts a new run and returns pc to "idle".             *)
(***************************************************************************)
Shown(kind) == SelectSeq(col2, LAMBDA e : e.kind = kind)

Clicked == pc # "idle"

NoCredential == secrets = None \/ secrets = ""

TemplateUnavailable == templateFile \in {"absent", "syntax_error"}

\* the template reads a name or an attribute the binding does not supply
UnsuppliedPlaceholder ==
    template \in {"missing_attribute", "missing_variable", "attribute_of_undefined"}

Terminal == {"succeeded", "failed"}

\* the steps a click may take
C4_Step ==
    /\ pc' \in {"idle", "awaiting"} \cup Terminal
    /\ pc = "awaiting" => /\ pc' \in {"awaiting"} \cup Terminal
                          /\ calls' = calls
    /\ (pc' = "awaiting" /\ pc # "awaiting") => Len(calls') = 1
    /\ (pc' = "succeeded" /\ pc # "succeeded") => pc = "awaiting"

\* C1 as stated: a click without a resolvable OPENAI_API_KEY issues no request
\* and reports the credential error.
C1_CredentialErrorReported ==
    (Clicked /\ NoCredential) =>
        /\ calls = << >>
        /\ col2 = << Error(KEY_NOT_FOUND) >>

\* C1 amended: a click without a resolvable OPENAI_API_KEY issues no request and
\* ends failed with one configuration error: the credential error when the
\* template was loaded, the template error when it was not.
C1_NoCredentialNoRequest ==
    (Clicked /\ NoCredential) =>
        /\ calls = << >>
        /\ pc = "failed"
        /\ col2 = IF template = None THEN << Error(TEMPLATE_NOT_FOUND) >>
                  ELSE << Error(KEY_NOT_FOUND) >>

C1_Witness ==
    /\ pc = "failed"
    /\ secrets = ""
    /\ template # None
    /\ col2 = << Error(KEY_NOT_FOUND) >>

\* C2: when the template file is missing or unreadable, load_template returned
\* None and every click reports the template error, renders nothing and issues
\* no request, with or without a credential.
C2_TemplateMissingAborts ==
    /\ TemplateUnavailable => template = None
    /\ (Clicked /\ TemplateUnavailable) =>
          /\ pc = "failed"
          /\ col2 = << Error(TEMPLATE_NOT_FOUND) >>
          /\ calls = << >>
          /\ lastRender = << >>

C2_Witness ==
    /\ pc = "failed"
    /\ templateFile = "syntax_error"
    /\ secrets = "sk-test"

\* C3 as stated: when the template references a placeholder the binding does
\* not supply, the click ends in a reported error and no request is made.
C3_UnresolvedPlaceholderFailsFast ==
    (Clicked /\ ~NoCredential /\ UnsuppliedPlaceholder) =>
        /\ calls = << >>
        /\ Len(Shown("error")) = 1

\* C4: a click moves idle -> awaiting -> succeeded or failed, or idle -> failed
\* when it is refused before the call; a run never holds more than one request;
\* while the call is in flight nothing but its return changes the run; and a call
\* in flight ends in succeeded or failed.
C4_StateMachine ==
    /\ [][C4_Step]_vars
    /\ [](Len(calls) <= 1)
    /\ (pc = "awaiting") ~> (pc \in Terminal)

C4_Witness ==
    /\ pc = "failed"
    /\ Len(calls) = 1
    /\ Shown("error") = << Error("Error: Connection error.") >>

\* C5 as stated: a run that shows the error message shows neither the generated
\* text nor the download.
C5_NoPartialOutput ==
    Shown("error") # << >> =>
        /\ Shown("markdown") = << >>
        /\ Shown("download") = << >>

C7_DownloadAfterSuccess ==
    \A i \in 1..Len(col2) :
        col2[i].kind = "download" =>
            LET bound == lastRender[1].data
                town  == bound.expose_object.object_attributes.town
                stamp == strftime(locals.end_time)
            IN  /\ pc = "succeeded"
                /\ i = Len(col2)
                /\ Len(calls) = 1
                /\ calls[1].messages[2].content = lastRender[1].result.text
                /\ col2[i].body = locals.model_response
                /\ col2[i].body \in Texts
                /\ Len(stamp) = 15
                /\ locals.end_time \in locals.start_time..now
                /\ col2[i].file_name =
                      "expose_" \o town \o "_" \o bound.target_group \o "_" \o stamp \o ".txt"

C7_Witness ==
    /\ pc = "succeeded"
    /\ form.town = "Bonn"
    /\ form.target_group = "Paare"
    /\ locals.end_time = SessionStart + 2
    /\ Shown("download") # << >>
    /\ Shown("download")[1].body = "Exposé B"

\* C8: every request has two messages, the system preamble and then the prompt
\* rendered from the form values of this click, with model gpt-3.5-turbo,
\* temperature 0.9, max_tokens 800 and top_p 0.95.
C8_RequestShape ==
    \A i \in 1..Len(calls) :
        LET r == calls[i] IN
        /\ Len(r.messages) = 2
        /\ r.messages[1] = [role |-> "system", content |-> SYSTEM_PREAMBLE]
        /\ r.messages[2].role = "user"
        /\ r.messages[2].content = RenderSegments(TemplateSource(template),
                                                  prepare_property_data(form)).text
        /\ r.model = "gpt-3.5-turbo"
        /\ r.temperature.num * 10 = 9 * r.temperature.den
        /\ 0 <= r.temperature.num /\ r.temperature.num <= 2 * r.temperature.den
        /\ r.max_tokens = 800
        /\ r.top_p.num * 100 = 95 * r.top_p.den

C8_Witness ==
    /\ pc = "awaiting"
    /\ Len(calls) = 1
    /\ form.town = "Bonn"
    /\ form.garage = "Nein"

C10_GaragesCoerced ==
    lastRender # << >> =>
        LET e == lastRender[1]
            bound == e.data.expose_object.object_attributes.garages
        IN  /\ e.form.garage = "Nein" => bound = 0
            /\ e.form.garage = "Ja" => (bound \in Nat /\ bound >= 1)

C10_Witness ==
    /\ lastRender # << >>
    /\ lastRender[1].form.garage = "Nein"
    /\ lastRender[1].form.garages_input = 2
    /\ lastRender[1].data.expose_object.object_attributes.garages = 0

=============================================================================
